---- MODULE Spec2Model ----
(***************************************************************************)
(* A model of rumps (src/rumps/rumps.py): the menu tree built by the      *)
(* App.menu setter and edited afterwards, the deferred click and timer    *)
(* registrations, the notification handler, the status bar's title and    *)
(* icon, App.run() and the callback dispatcher                            *)
(* _call_as_function_or_method.                                           *)
(*                                                                         *)
(* Python objects are heap cells: a MenuItem is an index into items, a    *)
(* Timer an index into tobjs.  The value 0 stands for the object          *)
(* NSMenuItem.separatorItem that parse_menu stores for a None element.    *)
(***************************************************************************)
EXTENDS Integers, Sequences, FiniteSets, TLC

VARIABLES
    sep_shared,    \* whether two reads of NSMenuItem.separatorItem give one object (one id)
    decl,          \* the declaration last handed to the App.menu setter
    menu,          \* App._menu: [none, od]; od is the top-level OrderedDict
    items,         \* every MenuItem object: its title, its mapping, its native submenu
    ns_to_py_and_callback,  \* MenuItem._ns_to_py_and_callback, keyed by the item
    buttons,       \* clicked.'*buttons': the binding closures, in registration order
    tobjs,         \* every Timer object
    timers,        \* timer.'*timers': the decorator's Timer objects, in order
    app_instance,  \* App.'*app_instance'
    nsapp,         \* App._nsapp: the status bar built by initializeStatusBar
    pc,            \* where the application is: config, run, loop, failed
    ti,            \* App.run: the next timer of '*timers' to start
    bi,            \* App.run: the next closure of '*buttons' to call
    calls,         \* the callback bodies entered by the last operation, in order
    err,           \* the error the last operation raised to its caller
    last,          \* the last operation
    app,           \* the App object's _name, _title and _icon
    notification_center,  \* notifications.'*notification_center'
    handlers,      \* the functions @notifications was applied to, in order
    warned,        \* the 'no function specified' warning was handed to _log
    rebinds        \* how often the closures of '*buttons' were called again after run()

vars == <<sep_shared, decl, menu, items, ns_to_py_and_callback, buttons, tobjs,
          timers, app_instance, nsapp, pc, ti, bi, calls, err, last,
          app, notification_center, handlers, warned, rebinds>>

\* ------------------------------------------------------------------ bounds
MaxLen == 3        \* elements of one top-level declaration
MaxSub == 1        \* elements of a container's children in a declaration
MaxRebinds == 1    \* repetitions of the binding pass after App.run()
MaxItems == 3      \* MenuItem objects alive when user code makes another

\* ------------------------------------------------------------------ values
NoErr == [cls |-> "none", src |-> "none", msg |-> <<>>]
Raise(cls, src, msg) == [cls |-> cls, src |-> src, msg |-> msg]

\* Python values that are shown or converted: None, a string, an integer
\* (by its digits), an NSImage (by its file).
PyNone == [k |-> "none", v |-> "None"]
PyStr(s) == [k |-> "str", v |-> s]
PyInt(s) == [k |-> "int", v |-> s]
NSImage(s) == [k |-> "image", v |-> s]
\* str(x)
py_str(x) == [k |-> "str", v |-> x.v]

Sep == 0           \* the object NSMenuItem.separatorItem
NotAMenuItem == -2 \* a value that is no MenuItem, such as 5
Root == 0          \* parse_menu's target when it is the top-level OrderedDict

Titles == {"A", "B"}

\* The elements of a declaration.
Str(t) == [k |-> "str", t |-> t, sub |-> <<>>]        \* 'A'
NoneEle == [k |-> "none", t |-> "", sub |-> <<>>]     \* None
IntEle == [k |-> "int", t |-> "5", sub |-> <<>>]      \* 5, a scalar that is no string
Item(t) == [k |-> "item", t |-> t, sub |-> <<>>]      \* MenuItem('A')
Pair(t, s) == [k |-> "pair", t |-> t, sub |-> s]      \* ('A', [...])
Map(s) == [k |-> "map", t |-> "", sub |-> s]          \* {'A': [...], 'B': [...]}
Tuple1(t) == [k |-> "tuple1", t |-> t, sub |-> <<>>]  \* ('A',)
List1(t) == [k |-> "list1", t |-> t, sub |-> <<>>]    \* ['A']
Triple(t) == [k |-> "triple", t |-> t, sub |-> <<>>]  \* ('A', 'B', 'C')

\* The tuple ('A',) as a dictionary key, and str(('A',)), its MenuItem's title.
TupleKey(t) == "tuple(" \o t \o ",)"
TupleTitle(t) == "('" \o t \o "',)"

SeqsUpTo(S, n) == UNION {[1..m -> S] : m \in 0..n}

Leaves == {Str(t) : t \in Titles} \cup {NoneEle, IntEle, Item("B")}
SubLeaves == {Str(t) : t \in Titles} \cup {NoneEle}
Subs == SeqsUpTo(SubLeaves, MaxSub)
Pairs == {Pair(t, s) : t \in Titles, s \in Subs}
Maps == {Map(<<Pair("A", s)>>) : s \in Subs}
          \cup {Map(<<Pair("A", <<Str("A")>>), Pair("B", <<Str("B")>>)>>)}
Elements == Leaves \cup Pairs \cup Maps
FlatDecls == SeqsUpTo(Elements, MaxLen)
\* Every flat declaration, and the same one level down inside a container 'P'.
Decls == FlatDecls \cup {<<Pair("P", d)>> : d \in FlatDecls}

\* ------------------------------------------------------------------ OrderedDict
Entry(k, v) == [key |-> k, val |-> v]
Keys(od) == [i \in 1..Len(od) |-> od[i].key]
HasKey(od, k) == \E i \in 1..Len(od) : od[i].key = k
Get(od, k) == od[CHOOSE i \in 1..Len(od) : od[i].key = k].val

\* OrderedDict.__setitem__: a present key keeps its place and takes the new value.
OrderedDict_setitem(od, k, v) ==
    IF HasKey(od, k)
    THEN [i \in 1..Len(od) |-> IF od[i].key = k THEN Entry(k, v) ELSE od[i]]
    ELSE Append(od, Entry(k, v))

\* ------------------------------------------------------------------ MenuItem
\* MenuItem.__init__ with the defaults callback=None, icon=None.
MenuItem_init(title) ==
    [title |-> title, kids |-> <<>>, submenu |-> [none |-> TRUE, nsitems |-> <<>>]]

\* A build in progress: the top-level dict, the heap, the error raised, and the
\* number of separators made so far.
Alloc(st, title) == [st EXCEPT !.items = Append(st.items, MenuItem_init(title))]
NewId(st) == Len(st.items) + 1

\* isinstance(value, MenuItem)
IsMenuItem(st, val) == val \in 1..Len(st.items)

\* MenuItem.__setitem__(self, key, value), self = items[id].
MenuItem_setitem(st, id, key, val) ==
    LET self == st.items[id] IN
    IF HasKey(self.kids, key) THEN st
    ELSE IF ~IsMenuItem(st, val)
    THEN [st EXCEPT !.err = Raise("TypeError", "core", <<>>)]
    ELSE [st EXCEPT !.items[id] =
              [title |-> self.title,
               kids |-> Append(self.kids, Entry(key, val)),
               submenu |-> [none |-> FALSE,
                            nsitems |-> Append(self.submenu.nsitems, val)]]]

\* menu[key] = value, where menu is the top-level OrderedDict or a MenuItem.
SetItem(st, target, key, val) ==
    IF target = Root
    THEN [st EXCEPT !.root = OrderedDict_setitem(st.root, key, val)]
    ELSE MenuItem_setitem(st, target, key, val)

Level(st, target) == IF target = Root THEN st.root ELSE st.items[target].kids

\* str(id(sep)): one key for all separators when the object is shared, else a
\* key per object.
SepKey(st) == IF sep_shared THEN "sep1" ELSE "sep" \o ToString(st.nsep + 1)

RECURSIVE parse_menu(_, _, _)
parse_menu(iterable, target, st) ==
    IF iterable = <<>> \/ st.err # NoErr THEN st
    ELSE
      LET ele == Head(iterable)
          new == NewId(st)
          st1 ==
            CASE ele.k = "item" -> SetItem(Alloc(st, ele.t), target, ele.t, new)
              [] ele.k = "map" -> parse_menu(ele.sub, target, st)
              [] ele.k = "none" ->
                   SetItem([st EXCEPT !.nsep = st.nsep + 1], target, SepKey(st), Sep)
              [] ele.k = "int" -> [st EXCEPT !.err = Raise("TypeError", "core", <<>>)]
              [] ele.k = "str" -> SetItem(Alloc(st, ele.t), target, ele.t, new)
              [] ele.k = "tuple1" ->
                   SetItem(Alloc(st, TupleTitle(ele.t)), target, TupleKey(ele.t), new)
              [] ele.k = "list1" ->    \* menu[ele]: a list cannot be hashed
                   [st EXCEPT !.err = Raise("TypeError", "core", <<"unhashable">>)]
              [] ele.k = "triple" -> [st EXCEPT !.err = Raise("ValueError", "core", <<>>)]
              [] ele.k = "pair" ->
                   LET s1 == SetItem(Alloc(st, ele.t), target, ele.t, new)
                   IN  IF s1.err # NoErr THEN s1
                       ELSE parse_menu(ele.sub, Get(Level(s1, target), ele.t), s1)
      IN  parse_menu(Tail(iterable), target, st1)

\* What the setter's call parse_menu(python_menu, OrderedDict()) gives.
Build(python_menu, heap) ==
    parse_menu(python_menu, Root,
               [root |-> <<>>, items |-> heap, err |-> NoErr, nsep |-> 0])

\* App.menu = python_menu, the one time the application's menu is declared.
MenuUndeclared == pc = "config" /\ menu.none /\ decl = <<>> /\ last.op # "menu"

MenuSetter(python_menu) ==
    LET r == Build(python_menu, items) IN
    /\ MenuUndeclared
    /\ decl' = python_menu
    /\ IF r.err = NoErr
       THEN menu' = [none |-> FALSE, od |-> r.root] /\ items' = r.items
       ELSE UNCHANGED <<menu, items>>
    /\ err' = r.err
    /\ calls' = <<>>
    /\ last' = [op |-> "menu", id |-> 0]
    /\ UNCHANGED <<rebinds, app, notification_center, handlers, warned, sep_shared, ns_to_py_and_callback, buttons, tobjs, timers,
                   app_instance, nsapp, pc, ti, bi>>

\* menu[key] = value by user code, menu being app.menu or a MenuItem of it
\* (target), value being a new MenuItem(key) or a value that is no MenuItem.
SetItemOp(target, key, isitem) ==
    LET st0 == [root |-> menu.od, items |-> items, err |-> NoErr, nsep |-> 0]
        st1 == IF isitem THEN Alloc(st0, key) ELSE st0
        r == SetItem(st1, target, key, IF isitem THEN NewId(st0) ELSE NotAMenuItem)
    IN
    /\ pc \in {"config", "loop"}
    /\ ~menu.none
    /\ Len(items) < MaxItems
    /\ menu' = [menu EXCEPT !.od = r.root]
    /\ items' = r.items
    /\ err' = r.err
    /\ calls' = <<>>
    /\ last' = [op |-> IF isitem THEN "setitem_item" ELSE "setitem_value", id |-> target]
    /\ UNCHANGED <<rebinds, app, notification_center, handlers, warned, sep_shared, decl,
                   ns_to_py_and_callback, buttons, tobjs, timers, app_instance, nsapp,
                   pc, ti, bi>>

\* OrderedDict.__delitem__, which MenuItem inherits: the key leaves the
\* mapping; the NSMenu is not touched.
OrderedDict_delitem(od, key) == SelectSeq(od, LAMBDA e : e.key # key)

\* del item[key] and item.pop(key) by user code: KeyError for a missing key.
MenuItem_remove(id, key, op) ==
    /\ pc \in {"config", "loop"}
    /\ IF HasKey(items[id].kids, key)
       THEN /\ items' = [items EXCEPT ![id].kids = OrderedDict_delitem(@, key)]
            /\ err' = NoErr
       ELSE /\ items' = items
            /\ err' = Raise("KeyError", "core", <<key>>)
    /\ calls' = <<>>
    /\ last' = [op |-> op, id |-> id]
    /\ UNCHANGED <<rebinds, app, notification_center, handlers, warned, sep_shared, decl,
                   menu, ns_to_py_and_callback, buttons, tobjs, timers, app_instance,
                   nsapp, pc, ti, bi>>

MenuItem_delitem(id, key) == MenuItem_remove(id, key, "del")
MenuItem_pop(id, key) == MenuItem_remove(id, key, "pop")

\* item.clear() by user code: OrderedDict.clear.
MenuItem_clear(id) ==
    /\ pc \in {"config", "loop"}
    /\ items' = [items EXCEPT ![id].kids = <<>>]
    /\ err' = NoErr
    /\ calls' = <<>>
    /\ last' = [op |-> "clear", id |-> id]
    /\ UNCHANGED <<rebinds, app, notification_center, handlers, warned, sep_shared, decl,
                   menu, ns_to_py_and_callback, buttons, tobjs, timers, app_instance,
                   nsapp, pc, ti, bi>>

\* item.title = new_title: the NSMenuItem's title is set.
MenuItem_title_setter(id, new_title) ==
    /\ pc \in {"config", "loop"}
    /\ items' = [items EXCEPT ![id].title = new_title]
    /\ err' = NoErr
    /\ calls' = <<>>
    /\ last' = [op |-> "title", id |-> id]
    /\ UNCHANGED <<rebinds, app, notification_center, handlers, warned, sep_shared, decl,
                   menu, ns_to_py_and_callback, buttons, tobjs, timers, app_instance,
                   nsapp, pc, ti, bi>>

\* ------------------------------------------------------------------ dispatch
\* A user callback: how many positional arguments it takes (one: f(event),
\* two: f(self, event), var: f(*args)) and what its body does when entered.
Callback(name, shape, body) == [name |-> name, shape |-> shape, body |-> body]
Shapes == {"one", "two", "var"}
Bodies == {"ok", "TypeError", "KeyError", "AttributeError"}
Callbacks == {Callback(s \o "_" \o b, s, b) : s \in Shapes, b \in Bodies}

Unset == Callback("unset", "none", "none")   \* the attribute is not there

Accepts(f, nargs) ==
    \/ f.shape = "var"
    \/ f.shape = "one" /\ nargs = 1
    \/ f.shape = "two" /\ nargs = 2

ItemEvent(id) == [kind |-> "item", id |-> id]      \* the MenuItem clicked
TimerEvent(id) == [kind |-> "timer", id |-> id]    \* the Timer that fired

\* One entry of the callback's body: the receiver it was given, if any, and
\* the event.
Entered(f, recv, event) == [f |-> f.name, recv |-> recv, ev |-> event]
Returned(cs) == [calls |-> cs, err |-> NoErr]
Raised(cs, e) == [calls |-> cs, err |-> e]

\* f(*args): Python raises TypeError before the body when the arity is wrong,
\* else the body runs and returns or raises.
Invoke(f, recv, event, nargs, before) ==
    IF ~Accepts(f, nargs) THEN Raised(before, Raise("TypeError", "arity", <<f.name>>))
    ELSE IF f.body = "ok" THEN Returned(Append(before, Entered(f, recv, event)))
    ELSE Raised(Append(before, Entered(f, recv, event)), Raise(f.body, "body", <<f.name>>))

\* A dispatcher that makes the first attempt only.
call_without_retry(f, event) == Invoke(f, "none", event, 1, <<>>)

\* _call_as_function_or_method(f, event)
call_as_function_or_method(f, event) ==
    LET first == Invoke(f, "none", event, 1, <<>>) IN
    IF first.err.cls # "TypeError" THEN first
    ELSE IF app_instance = "unset"
    THEN Raised(first.calls, Raise("AttributeError", "core", <<"*app_instance">>))
    ELSE Invoke(f, app_instance, event, 2, first.calls)

\* ------------------------------------------------------------------ notifications
DataEvent(d) == [kind |-> "data", id |-> d]      \* dict(notification.userInfo())

\* A decorator that keeps the function registered first.
notification_center_kept(old, f) == IF old = Unset THEN f ELSE old

\* notifications.__dict__['*notification_center'] = f
notification_center_set(old, f) == f

\* @notifications applied to f
Notifications(f) ==
    /\ pc = "config"
    /\ notification_center' = notification_center_set(notification_center, f)
    /\ handlers' = Append(handlers, f)
    /\ calls' = <<>>
    /\ err' = NoErr
    /\ last' = [op |-> "notifications", id |-> Len(handlers) + 1]
    /\ UNCHANGED <<rebinds, app, warned, sep_shared, decl, menu, items,
                   ns_to_py_and_callback, buttons, tobjs, timers, app_instance, nsapp,
                   pc, ti, bi>>

\* The try block of userNotificationCenter_didActivateNotification_: getattr
\* raises AttributeError when nothing was registered.
notification_try(data) ==
    IF notification_center = Unset
    THEN Raised(<<>>, Raise("AttributeError", "core", <<"*notification_center">>))
    ELSE call_as_function_or_method(notification_center, data)

\* NSApp.userNotificationCenter_didActivateNotification_, called by the
\* notification center once App.run() made the NSApp its delegate and the
\* event loop runs: an AttributeError out of the try block is logged.
Notify(d) ==
    LET r == notification_try(DataEvent(d)) IN
    /\ pc = "loop"
    /\ calls' = r.calls
    /\ IF r.err.cls = "AttributeError"
       THEN err' = NoErr /\ warned' = TRUE
       ELSE err' = r.err /\ warned' = warned
    /\ last' = [op |-> "notify", id |-> d]
    /\ UNCHANGED <<rebinds, app, notification_center, handlers, sep_shared, decl, menu,
                   items, ns_to_py_and_callback, buttons, tobjs, timers, app_instance,
                   nsapp, pc, ti, bi>>

\* ------------------------------------------------------------------ Timer
\* Timer.__init__: the NSTimer is made repeating with fire date now, and
\* added to the current run loop.  started, stopped and fired record that
\* start() and stop() were called and that the callback's body was entered;
\* late, that it was entered after stop() was called.
Timer_init(callback) ==
    [callback |-> callback, valid |-> TRUE,
     started |-> FALSE, stopped |-> FALSE, fired |-> FALSE, late |-> FALSE]

\* Timer.callback_(self, _)
Timer_callback(t) == call_as_function_or_method(tobjs[t].callback, TimerEvent(t))

\* NSTimer.fire(): sends the timer's message to its target; an invalidated
\* timer sends nothing.
fire(t) == IF tobjs[t].valid THEN Timer_callback(t) ELSE Returned(<<>>)

UserCode == pc \in {"config", "loop"}

\* @timer(interval) applied to f
TimerDecorator(f) ==
    /\ UserCode
    /\ tobjs' = Append(tobjs, Timer_init(f))
    /\ timers' = Append(timers, Len(tobjs) + 1)
    /\ calls' = <<>>
    /\ err' = NoErr
    /\ last' = [op |-> "timer", id |-> Len(tobjs) + 1]
    /\ UNCHANGED <<rebinds, app, notification_center, handlers, warned, sep_shared, decl, menu, items, ns_to_py_and_callback, buttons,
                   app_instance, nsapp, pc, ti, bi>>

\* Timer(f, interval)
TimerNew(f) ==
    /\ UserCode
    /\ tobjs' = Append(tobjs, Timer_init(f))
    /\ calls' = <<>>
    /\ err' = NoErr
    /\ last' = [op |-> "timer", id |-> Len(tobjs) + 1]
    /\ UNCHANGED <<rebinds, app, notification_center, handlers, warned, sep_shared, decl, menu, items, ns_to_py_and_callback, buttons,
                   timers, app_instance, nsapp, pc, ti, bi>>

\* Timer.start(): self._nstimer.fire()
Timer_start(t) ==
    LET r == fire(t) IN
    /\ tobjs' = [tobjs EXCEPT ![t].started = TRUE,
                              ![t].fired = @ \/ r.calls # <<>>,
                              ![t].late = @ \/ (tobjs[t].stopped /\ r.calls # <<>>)]
    /\ calls' = r.calls
    /\ err' = r.err

TimerStart(t) ==
    /\ UserCode
    /\ Timer_start(t)
    /\ last' = [op |-> "start", id |-> t]
    /\ UNCHANGED <<rebinds, app, notification_center, handlers, warned, sep_shared, decl, menu, items, ns_to_py_and_callback, buttons,
                   timers, app_instance, nsapp, pc, ti, bi>>

\* delattr(self, 'start'): start is a function of the class, the instance
\* has no attribute of that name to delete.
delattr_start(t) == Raise("AttributeError", "core", <<"start">>)

\* Timer.stop(): self._nstimer.invalidate(); delattr(self, 'start')
TimerStop(t) ==
    /\ UserCode
    /\ tobjs' = [tobjs EXCEPT ![t].valid = FALSE, ![t].stopped = TRUE]
    /\ calls' = <<>>
    /\ err' = delattr_start(t)
    /\ last' = [op |-> "stop", id |-> t]
    /\ UNCHANGED <<rebinds, app, notification_center, handlers, warned, sep_shared, decl, menu, items, ns_to_py_and_callback, buttons,
                   timers, app_instance, nsapp, pc, ti, bi>>

\* The run loop fires a timer that was added to it and is still valid.
Tick(t) ==
    LET r == Timer_callback(t) IN
    /\ pc = "loop"
    /\ tobjs[t].valid
    /\ tobjs' = [tobjs EXCEPT ![t].fired = @ \/ r.calls # <<>>,
                              ![t].late = @ \/ (tobjs[t].stopped /\ r.calls # <<>>)]
    /\ calls' = r.calls
    /\ err' = r.err
    /\ last' = [op |-> "tick", id |-> t]
    /\ UNCHANGED <<rebinds, app, notification_center, handlers, warned, sep_shared, decl, menu, items, ns_to_py_and_callback, buttons,
                   timers, app_instance, nsapp, pc, ti, bi>>

\* ------------------------------------------------------------------ clicked
\* The object a click path has reached: the top-level OrderedDict, a MenuItem
\* or the separator object.
RootObj == [kind |-> "root", id |-> 0]
ItemObj(id) == [kind |-> "item", id |-> id]
SepObj == [kind |-> "sep", id |-> 0]

\* menuitem[arg]: a dict raises KeyError for a missing key; a value that is
\* no MenuItem (the separator object) cannot be subscripted at all.
GetItem(cur, arg) ==
    IF cur.kind = "sep"
    THEN [err |-> Raise("TypeError", "core", <<"__getitem__">>), cur |-> cur]
    ELSE LET od == IF cur.kind = "root" THEN menu.od ELSE items[cur.id].kids IN
         IF ~HasKey(od, arg)
         THEN [err |-> Raise("KeyError", "core", <<arg>>), cur |-> cur]
         ELSE [err |-> NoErr,
               cur |-> IF Get(od, arg) \in 1..Len(items) THEN ItemObj(Get(od, arg))
                       ELSE SepObj]

\* A walk that looks every title up in the top-level menu.
Traverse_from_root(cur, args) ==
    IF args = <<>> THEN [err |-> NoErr, cur |-> cur]
    ELSE GetItem(RootObj, args[Len(args)])

\* for arg in args: menuitem = menuitem[arg]
RECURSIVE Traverse(_, _)
Traverse(cur, args) ==
    IF args = <<>> THEN [err |-> NoErr, cur |-> cur]
    ELSE LET r == GetItem(cur, Head(args))
         IN  IF r.err # NoErr THEN r ELSE Traverse(r.cur, Tail(args))

NoMenuCreated == Raise("ValueError", "core", <<"no menu created">>)
NoPathExists(args) == Raise("ValueError", "core", <<"no path exists for">> \o args)

\* A register_click that walks the path without looking at self._menu first.
register_click_unguarded(args) ==
    LET r == Traverse(RootObj, args) IN
    IF r.err.cls = "KeyError" THEN [err |-> NoPathExists(args), node |-> 0]
    ELSE IF r.err # NoErr THEN [err |-> r.err, node |-> 0]
    ELSE IF r.cur.kind # "item"
    THEN [err |-> Raise("AttributeError", "core", <<"set_callback">>), node |-> 0]
    ELSE [err |-> NoErr, node |-> r.cur.id]

\* register_click(self) of @clicked(*args) up to its last line: the error it
\* raises, or the MenuItem whose set_callback it calls.
register_click(args) ==
    IF menu.none THEN [err |-> NoMenuCreated, node |-> 0]
    ELSE LET r == Traverse(RootObj, args) IN
         IF r.err.cls = "KeyError" THEN [err |-> NoPathExists(args), node |-> 0]
         ELSE IF r.err # NoErr THEN [err |-> r.err, node |-> 0]
         ELSE IF r.cur.kind # "item"
         THEN [err |-> Raise("AttributeError", "core", <<"set_callback">>), node |-> 0]
         ELSE [err |-> NoErr, node |-> r.cur.id]

\* A set_callback that leaves an item its first callback.
set_callback_once(table, self, callback) ==
    [n \in DOMAIN table \cup {self} |->
        IF n \in DOMAIN table THEN table[n] ELSE [self |-> self, callback |-> callback]]

\* A set_callback that chains the new callback onto the one already set.
set_callback_chaining(table, self, callback) ==
    [n \in DOMAIN table \cup {self} |->
        IF n # self THEN table[n]
        ELSE IF self \in DOMAIN table
        THEN [self |-> self,
              callback |-> Callback(table[self].callback.name \o "+" \o callback.name,
                                    callback.shape, callback.body)]
        ELSE [self |-> self, callback |-> callback]]

\* MenuItem.set_callback(self, callback): the class-level table's entry for
\* the item's NSMenuItem.
set_callback(table, self, callback) ==
    [n \in DOMAIN table \cup {self} |->
        IF n = self THEN [self |-> self, callback |-> callback] ELSE table[n]]

\* @clicked(*args) applied to f: the closure is appended, nothing is looked up.
Clicked(args, f) ==
    /\ pc = "config"
    /\ buttons' = Append(buttons, [args |-> args, f |-> f])
    /\ calls' = <<>>
    /\ err' = NoErr
    /\ last' = [op |-> "clicked", id |-> Len(buttons) + 1]
    /\ UNCHANGED <<rebinds, app, notification_center, handlers, warned, sep_shared, decl, menu, items, ns_to_py_and_callback, tobjs,
                   timers, app_instance, nsapp, pc, ti, bi>>

\* ------------------------------------------------------------------ App.run
Quit == -1         \* the NSMenuItem 'Quit' of initializeStatusBar

\* The files open() can open, as given or beside the main script.
Readable == {"a.png", "b.png"}
IOError(filename) == Raise("IOError", "core", <<filename.v>>)

\* _nsimage_from_file(filename)
nsimage_from_file(filename) ==
    IF filename.v \in Readable
    THEN [err |-> NoErr, image |-> NSImage(filename.v)]
    ELSE [err |-> IOError(filename), image |-> PyNone]

\* A setStatusBarTitle that shows the application's name whatever the title.
setStatusBarTitle_name(a) == a.name

\* NSApp.setStatusBarTitle: the status item's title.
setStatusBarTitle(a) == IF a.title # PyNone THEN a.title ELSE a.name

\* NSApp.setStatusBarIcon: the status item's image, or the error raised.
setStatusBarIcon(a) == nsimage_from_file(a.icon)

\* NSApp.initializeStatusBar: the icon if there is one, and then the title
\* only if one was given; the title or the name if there is no icon; then
\* item() for every value of _menu, then Quit.
initializeStatusBar ==
    LET img == setStatusBarIcon(app)
        bar == [made |-> TRUE, mainmenu |-> <<>>, title |-> PyNone, image |-> PyNone]
    IN  IF app.icon # PyNone /\ img.err # NoErr THEN [err |-> img.err, nsapp |-> bar]
        ELSE [err |-> NoErr,
              nsapp |-> [made |-> TRUE,
                         mainmenu |-> IF menu.none THEN <<Quit>>
                                      ELSE Append([i \in 1..Len(menu.od) |-> menu.od[i].val],
                                                  Quit),
                         title |-> IF app.icon # PyNone /\ app.title = PyNone THEN PyNone
                                   ELSE setStatusBarTitle(app),
                         image |-> IF app.icon # PyNone THEN img.image ELSE PyNone]]

\* App.run up to setDelegate_; an error of initializeStatusBar ends run().
RunInit ==
    LET r == initializeStatusBar IN
    /\ pc = "config"
    /\ pc' = IF r.err = NoErr THEN "init" ELSE "failed"
    /\ nsapp' = r.nsapp
    /\ ti' = 1
    /\ bi' = 1
    /\ calls' = <<>>
    /\ err' = r.err
    /\ last' = [op |-> "runinit", id |-> 0]
    /\ UNCHANGED <<rebinds, app, notification_center, handlers, warned, sep_shared, decl, menu,
                   items, ns_to_py_and_callback, buttons, tobjs, timers, app_instance>>

\* An App.run that goes on to the timers with the instance not yet set.
RunSetInstance_skipped ==
    /\ pc = "init"
    /\ pc' = "run"
    /\ calls' = <<>>
    /\ err' = NoErr
    /\ last' = [op |-> "setinstance", id |-> 0]
    /\ UNCHANGED <<rebinds, app, notification_center, handlers, warned, sep_shared, decl, menu, items, ns_to_py_and_callback, buttons,
                   tobjs, timers, app_instance, nsapp, ti, bi>>

\* app.title = title: recorded as str(title), and shown when self._nsapp
\* exists; the AttributeError of a missing _nsapp is passed over.
App_title_setter(title) ==
    LET a == [app EXCEPT !.title = py_str(title)] IN
    /\ UserCode
    /\ IF title = PyNone THEN UNCHANGED <<app, nsapp>>
       ELSE /\ app' = a
            /\ nsapp' = IF nsapp.made THEN [nsapp EXCEPT !.title = setStatusBarTitle(a)]
                         ELSE nsapp
    /\ calls' = <<>>
    /\ err' = NoErr
    /\ last' = [op |-> "app_title", id |-> 0, arg |-> title]
    /\ UNCHANGED <<rebinds, notification_center, handlers, warned, sep_shared, decl, menu,
                   items, ns_to_py_and_callback, buttons, tobjs, timers, app_instance,
                   pc, ti, bi>>

\* app.icon = icon_path: recorded, and loaded and shown when self._nsapp
\* exists; an error of the loading leaves the setter.
App_icon_setter(icon_path) ==
    LET a == [app EXCEPT !.icon = icon_path]
        r == setStatusBarIcon(a)
    IN
    /\ UserCode
    /\ IF icon_path = PyNone THEN UNCHANGED <<app, nsapp>> /\ err' = NoErr
       ELSE /\ app' = a
            /\ nsapp' = IF nsapp.made /\ r.err = NoErr THEN [nsapp EXCEPT !.image = r.image]
                         ELSE nsapp
            /\ err' = IF nsapp.made THEN r.err ELSE NoErr
    /\ calls' = <<>>
    /\ last' = [op |-> "app_icon", id |-> 0, arg |-> icon_path]
    /\ UNCHANGED <<rebinds, notification_center, handlers, warned, sep_shared, decl, menu,
                   items, ns_to_py_and_callback, buttons, tobjs, timers, app_instance,
                   pc, ti, bi>>

\* setattr(App, '*app_instance', self)
RunSetInstance ==
    /\ pc = "init"
    /\ pc' = "run"
    /\ app_instance' = "app"
    /\ calls' = <<>>
    /\ err' = NoErr
    /\ last' = [op |-> "setinstance", id |-> 0]
    /\ UNCHANGED <<rebinds, app, notification_center, handlers, warned, sep_shared, decl, menu, items, ns_to_py_and_callback, buttons,
                   tobjs, timers, nsapp, ti, bi>>

\* for t in '*timers': t.start()  -- one iteration; an error ends run().
RunStartTimer ==
    /\ pc = "run"
    /\ ti <= Len(timers)
    /\ Timer_start(timers[ti])
    /\ last' = [op |-> "runstart", id |-> timers[ti]]
    /\ IF err' = NoErr THEN ti' = ti + 1 /\ pc' = pc
                       ELSE ti' = ti /\ pc' = "failed"
    /\ UNCHANGED <<rebinds, app, notification_center, handlers, warned, sep_shared, decl, menu, items, ns_to_py_and_callback, buttons,
                   timers, app_instance, nsapp, bi>>

\* for b in '*buttons': b(self)  -- one iteration; an error ends run().
RunBind ==
    LET b == buttons[bi]
        r == register_click(b.args)
    IN
    /\ pc = "run"
    /\ ti > Len(timers)
    /\ bi <= Len(buttons)
    /\ IF r.err = NoErr
       THEN /\ ns_to_py_and_callback' = set_callback(ns_to_py_and_callback, r.node, b.f)
            /\ bi' = bi + 1
            /\ pc' = pc
       ELSE /\ UNCHANGED <<ns_to_py_and_callback, bi>>
            /\ pc' = "failed"
    /\ calls' = <<>>
    /\ err' = r.err
    /\ last' = [op |-> "bind", id |-> bi]
    /\ UNCHANGED <<rebinds, app, notification_center, handlers, warned, sep_shared, decl, menu, items, buttons, tobjs, timers,
                   app_instance, nsapp, ti>>

\* AppHelper.runEventLoop()
RunEventLoop ==
    /\ pc = "run"
    /\ ti > Len(timers)
    /\ bi > Len(buttons)
    /\ pc' = "loop"
    /\ calls' = <<>>
    /\ err' = NoErr
    /\ last' = [op |-> "loop", id |-> 0]
    /\ UNCHANGED <<rebinds, app, notification_center, handlers, warned, sep_shared, decl, menu, items, ns_to_py_and_callback, buttons,
                   tobjs, timers, app_instance, nsapp, ti, bi>>

\* for b in '*buttons': b(self), from the i-th closure on: the table it
\* leaves and the error that ended it.
RECURSIVE BindAll(_, _)
BindAll(table, i) ==
    IF i > Len(buttons) THEN [err |-> NoErr, table |-> table]
    ELSE LET r == register_click(buttons[i].args) IN
         IF r.err # NoErr THEN [err |-> r.err, table |-> table]
         ELSE BindAll(set_callback(table, r.node, buttons[i].f), i + 1)

\* The closures of '*buttons' called once more, by user code in the event
\* loop, on the running application.
Rebind ==
    LET r == BindAll(ns_to_py_and_callback, 1) IN
    /\ pc = "loop"
    /\ rebinds < MaxRebinds
    /\ rebinds' = rebinds + 1
    /\ ns_to_py_and_callback' = r.table
    /\ calls' = <<>>
    /\ err' = r.err
    /\ last' = [op |-> "rebind", id |-> 0]
    /\ UNCHANGED <<app, notification_center, handlers, warned, sep_shared, decl, menu,
                   items, buttons, tobjs, timers, app_instance, nsapp, pc, ti, bi>>

\* The MenuItems whose NSMenuItem is in the status bar's menu or in the
\* submenu of one that is.
RECURSIVE ShownFrom(_, _)
ShownFrom(S, k) ==
    IF k = 0 THEN S
    ELSE ShownFrom(S \cup UNION {{items[m].submenu.nsitems[i] :
                                     i \in 1..Len(items[m].submenu.nsitems)} : m \in S},
                   k - 1)
Shown ==
    ShownFrom({nsapp.mainmenu[i] : i \in 1..Len(nsapp.mainmenu)} \cap (1..Len(items)),
              Len(items))

\* MenuItem.callback_(cls, nsmenuitem): the user clicks a shown item whose
\* action was set.
Click(n) ==
    LET r == call_as_function_or_method(ns_to_py_and_callback[n].callback,
                                        ItemEvent(ns_to_py_and_callback[n].self))
    IN
    /\ pc = "loop"
    /\ n \in DOMAIN ns_to_py_and_callback
    /\ n \in Shown
    /\ calls' = r.calls
    /\ err' = r.err
    /\ last' = [op |-> "click", id |-> n]
    /\ UNCHANGED <<rebinds, app, notification_center, handlers, warned, sep_shared, decl, menu, items, ns_to_py_and_callback, buttons,
                   tobjs, timers, app_instance, nsapp, pc, ti, bi>>

\* ------------------------------------------------------------------ Init
\* App(name) with the defaults title=None, icon=None, menu=None.
Init ==
    /\ sep_shared \in BOOLEAN
    /\ decl = <<>>
    /\ menu = [none |-> TRUE, od |-> <<>>]
    /\ items = <<>>
    /\ ns_to_py_and_callback = [n \in {} |-> 0]
    /\ buttons = <<>>
    /\ tobjs = <<>>
    /\ timers = <<>>
    /\ app_instance = "unset"
    /\ nsapp = [made |-> FALSE, mainmenu |-> <<>>, title |-> PyNone, image |-> PyNone]
    /\ pc = "config"
    /\ ti = 1
    /\ bi = 1
    /\ calls = <<>>
    /\ err = NoErr
    /\ last = [op |-> "init", id |-> 0]
    /\ app = [name |-> PyStr("x"), title |-> PyNone, icon |-> PyNone]
    /\ notification_center = Unset
    /\ handlers = <<>>
    /\ warned = FALSE
    /\ rebinds = 0

\* ------------------------------------------------------------------ SpecBuild
\* The menu setter alone, over every bounded declaration.
NextBuild == \E d \in (IF MenuUndeclared THEN Decls ELSE {}) : MenuSetter(d)
SpecBuild == Init /\ [][NextBuild]_vars

\* ------------------------------------------------------------------ SpecTimer
\* Timers alone: made by the decorator or directly, started, stopped, and
\* fired by the run loop once App.run() has entered it.
MaxObjs == 2       \* Timer objects
TimerFns == {Callback("f", "one", "ok"), Callback("m", "two", "ok"),
             Callback("e", "one", "KeyError")}

NextTimer ==
    \/ \E f \in (IF Len(tobjs) < MaxObjs THEN TimerFns ELSE {}) : TimerDecorator(f)
    \/ \E f \in (IF Len(tobjs) < MaxObjs THEN TimerFns ELSE {}) : TimerNew(f)
    \/ \E t \in 1..Len(tobjs) : TimerStart(t)
    \/ \E t \in 1..Len(tobjs) : TimerStop(t)
    \/ \E t \in 1..Len(tobjs) : Tick(t)
    \/ RunInit
    \/ RunSetInstance
    \/ RunStartTimer
    \/ RunEventLoop
SpecTimer == Init /\ [][NextTimer]_vars


\* ------------------------------------------------------------------ SpecDispatch
\* The dispatcher under every callback shape and body: timers registered by
\* the decorator, started by user code or by App.run(), fired by the run loop.
MaxDispatch == 1   \* Timer objects

NextDispatch ==
    \/ \E f \in (IF Len(tobjs) < MaxDispatch THEN Callbacks ELSE {}) : TimerDecorator(f)
    \/ \E t \in 1..Len(tobjs) : TimerStart(t)
    \/ \E t \in 1..Len(tobjs) : Tick(t)
    \/ RunInit
    \/ RunSetInstance
    \/ RunStartTimer
    \/ RunEventLoop
SpecDispatch == Init /\ [][NextDispatch]_vars

\* ------------------------------------------------------------------ SpecClick
\* Click registrations against a declared menu: decoration, App.run()'s
\* binding pass, and clicks once the event loop runs.
MaxButtons == 2    \* click registrations

\* [{'A': ['A', 'B']}, None, 'B'], [('A', [('B', ['A'])])], [('A', ['B']), 'A']
RunDecls ==
    { <<Map(<<Pair("A", <<Str("A"), Str("B")>>)>>), NoneEle, Str("B")>>,
      <<Pair("A", <<Pair("B", <<Str("A")>>)>>)>>,
      <<Pair("A", <<Str("B")>>), Str("A")>> }
ClickPaths ==
    { <<>>, <<"A">>, <<"B">>, <<"A", "A">>, <<"A", "B">>, <<"B", "A">>,
      <<"A", "B", "A">>, <<"A", "B", "B">>, <<"A", "A", "B">>,
      <<"sep1">>, <<"sep1", "A">> }
ClickFns == {Callback("f", "one", "ok"), Callback("m", "two", "ok")}

NextClick ==
    \/ \E d \in (IF MenuUndeclared THEN RunDecls ELSE {}) : MenuSetter(d)
    \/ \E args \in (IF Len(buttons) < MaxButtons THEN ClickPaths ELSE {}),
          f \in ClickFns : Clicked(args, f)
    \/ RunInit
    \/ RunSetInstance
    \/ RunBind
    \/ RunEventLoop
    \/ Rebind
    \/ \E n \in 1..Len(items) : Click(n)
SpecClick == Init /\ [][NextClick]_vars

\* ------------------------------------------------------------------ SpecNotify
\* Notification handlers of every shape and body, registered before
\* App.run(), and activations delivered in the event loop.
MaxHandlers == 2   \* applications of @notifications
DataIds == {1, 2}  \* the data mappings of the notifications sent

NextNotify ==
    \/ \E f \in (IF Len(handlers) < MaxHandlers THEN Callbacks ELSE {}) : Notifications(f)
    \/ RunInit
    \/ RunSetInstance
    \/ RunEventLoop
    \/ \E d \in DataIds : Notify(d)
SpecNotify == Init /\ [][NextNotify]_vars

\* ------------------------------------------------------------------ SpecStatus
\* The status bar's title and icon: assignments before App.run() and in the
\* event loop.
TitleValues == {PyNone, PyStr("T"), PyStr("U"), PyInt("5")}
IconValues == {PyNone, PyStr("a.png"), PyStr("b.png"), PyStr("missing.png")}

NextStatus ==
    \/ \E title \in TitleValues : App_title_setter(title)
    \/ \E icon_path \in IconValues : App_icon_setter(icon_path)
    \/ RunInit
    \/ RunSetInstance
    \/ RunEventLoop
SpecStatus == Init /\ [][NextStatus]_vars

\* ------------------------------------------------------------------ SpecDeliver
\* The three deliveries -- a click, a timer's tick, a notification's
\* activation -- to callbacks of every shape and body, one registration of
\* each kind.
MaxDeliver == 1    \* registrations of each kind

NextDeliver ==
    \/ MenuSetter(<<Str("A")>>)
    \/ \E f \in (IF Len(buttons) < MaxDeliver THEN Callbacks ELSE {}) : Clicked(<<"A">>, f)
    \/ \E f \in (IF pc = "config" /\ Len(tobjs) < MaxDeliver THEN Callbacks ELSE {}) :
          TimerDecorator(f)
    \/ \E f \in (IF Len(handlers) < MaxDeliver THEN Callbacks ELSE {}) : Notifications(f)
    \/ RunInit
    \/ RunSetInstance
    \/ RunStartTimer
    \/ RunBind
    \/ RunEventLoop
    \/ \E t \in 1..Len(tobjs) : Tick(t)
    \/ \E n \in 1..Len(items) : Click(n)
    \/ \E d \in DataIds : Notify(d)
SpecDeliver == Init /\ [][NextDeliver]_vars

\* ------------------------------------------------------------------ SpecEdit
\* The tree after it was built: assignments into its levels and to the
\* titles of its nodes.
\* ['A', ('B', ['A'])], [MenuItem('B'), ('A',)], [['A']], [('A', 'B', 'C')]
EditDecls ==
    { <<Str("A"), Pair("B", <<Str("A")>>)>>,
      <<Item("B"), Tuple1("A")>>,
      <<List1("A")>>,
      <<Triple("A")>> }
NewTitles == {"A", "C"}

NextEdit ==
    \/ \E d \in (IF MenuUndeclared THEN EditDecls ELSE {}) : MenuSetter(d)
    \/ \E target \in 0..Len(items), key \in Titles, isitem \in BOOLEAN :
          SetItemOp(target, key, isitem)
    \/ \E id \in 1..Len(items), t \in NewTitles : MenuItem_title_setter(id, t)
    \/ \E id \in 1..Len(items), key \in Titles : MenuItem_delitem(id, key)
    \/ \E id \in 1..Len(items), key \in Titles : MenuItem_pop(id, key)
    \/ \E id \in 1..Len(items) : MenuItem_clear(id)
SpecEdit == Init /\ [][NextEdit]_vars

\* ------------------------------------------------------------------ Spec
\* The application's life: declaration of the menu, of timers and of click
\* callbacks, then App.run() step by step, then the event loop's deliveries.
MaxRunTimers == 2  \* timers registered before App.run()
MaxRunButtons == 2 \* click registrations before App.run()

RunPaths == {<<"A">>, <<"A", "B">>, <<"B", "B">>}
RunFns == {Callback("m", "two", "ok"), Callback("e", "one", "KeyError")}

Next ==
    \/ \E d \in (IF MenuUndeclared THEN RunDecls ELSE {}) : MenuSetter(d)
    \/ \E f \in (IF pc = "config" /\ Len(tobjs) < MaxRunTimers THEN RunFns ELSE {}) :
          TimerDecorator(f)
    \/ \E args \in (IF Len(buttons) < MaxRunButtons THEN RunPaths ELSE {}),
          f \in RunFns : Clicked(args, f)
    \/ RunInit
    \/ RunSetInstance
    \/ RunStartTimer
    \/ RunBind
    \/ RunEventLoop
    \/ \E t \in 1..Len(tobjs) : Tick(t)
    \/ \E n \in 1..Len(items) : Click(n)
Spec == Init /\ [][Next]_vars

\* ------------------------------------------------------------------ C1, C2
\* One level of a declaration as parse_menu walks it: mappings opened into
\* their (title, children) pairs.
RECURSIVE Flat(_)
Flat(elems) ==
    IF elems = <<>> THEN <<>>
    ELSE LET e == Head(elems)
         IN  (IF e.k = "map" THEN Flat(e.sub) ELSE <<e>>) \o Flat(Tail(elems))

\* The declaration that holds `inner` at the place the frames describe: each
\* frame is a level's elements before a container, and the container's title.
RECURSIVE Wrap(_, _)
Wrap(frames, inner) ==
    IF frames = <<>> THEN inner
    ELSE LET f == frames[Len(frames)]
         IN  Wrap(SubSeq(frames, 1, Len(frames) - 1), f.pre \o <<Pair(f.t, inner)>>)

RECURSIVE Walk(_, _, _)
Walk(st, target, path) ==
    IF path = <<>> THEN target
    ELSE Walk(st, Get(Level(st, target), Head(path)), Tail(path))

FramePath(frames) == [i \in 1..Len(frames) |-> frames[i].t]

\* At the level the frames lead to, every element that repeats a title
\* already present there leaves the node stored under the title, and that
\* node's children, as they were before the element's insertion.
RECURSIVE DuplicateIsNoOp(_, _)
DuplicateIsNoOp(frames, elems) ==
    \A i \in 1..Len(elems) :
        LET e == elems[i]
            pre == SubSeq(elems, 1, i - 1)
            a == Build(Wrap(frames, pre), <<>>)
            b == Build(Wrap(frames, pre \o <<[e EXCEPT !.sub = <<>>]>>), <<>>)
            la == Level(a, Walk(a, Root, FramePath(frames)))
            lb == Level(b, Walk(b, Root, FramePath(frames)))
        IN  /\ (e.k \in {"str", "pair", "item"} /\ a.err = NoErr /\ HasKey(la, e.t))
                => /\ b.err = NoErr
                   /\ Get(lb, e.t) = Get(la, e.t)
                   /\ b.items[Get(lb, e.t)].kids = a.items[Get(la, e.t)].kids
            /\ (e.k = "pair" /\ a.err = NoErr)
                => DuplicateIsNoOp(Append(frames, [pre |-> pre, t |-> e.t]), Flat(e.sub))

\* C1: at every level of the tree the menu setter builds, the top level
\* included, an element that repeats a title of its level is a no-op: the
\* node stored under the title and its children stay those of the first
\* insertion.
C1_DuplicateInsertIsNoOp ==
    last.op = "menu" => DuplicateIsNoOp(<<>>, Flat(decl))

RECURSIVE FirstOccurrence(_, _)
FirstOccurrence(seq, seen) ==
    IF seq = <<>> THEN <<>>
    ELSE IF Head(seq) \in seen THEN FirstOccurrence(Tail(seq), seen)
    ELSE <<Head(seq)>> \o FirstOccurrence(Tail(seq), seen \cup {Head(seq)})

IsTitled(e) == e.k # "none"
TitleOf(e) == e.t
\* The titles one level of a declaration names, in first-occurrence order.
LevelTitles(elems) ==
    LET titled == SelectSeq(Flat(elems), IsTitled)
    IN  FirstOccurrence([i \in 1..Len(titled) |-> TitleOf(titled[i])], {})

\* The children a level's declaration gives the container titled t.
RECURSIVE ChildrenOf(_, _)
ChildrenOf(elems, t) ==
    IF elems = <<>> THEN <<>>
    ELSE LET e == Head(elems)
         IN  (IF e.k = "map" THEN ChildrenOf(e.sub, t)
              ELSE IF e.k = "pair" /\ e.t = t THEN e.sub ELSE <<>>)
             \o ChildrenOf(Tail(elems), t)

IsNode(entry) == entry.val # Sep
\* Iterating a level: its keys in order, the separators' keys left out.
IterTitles(od) ==
    LET nodes == SelectSeq(od, IsNode) IN [i \in 1..Len(nodes) |-> nodes[i].key]

RECURSIVE OrderOk(_, _, _)
OrderOk(st, target, elems) ==
    /\ IterTitles(Level(st, target)) = LevelTitles(elems)
    /\ \A i \in 1..Len(LevelTitles(elems)) :
          LET t == LevelTitles(elems)[i]
          IN  OrderOk(st, Get(Level(st, target), t), ChildrenOf(elems, t))

\* C2: iterating each level of the tree built from a declaration yields the
\* titles declared for that level, in the order of their first occurrence.
C2_IterationIsFirstOccurrenceOrder ==
    (last.op = "menu" /\ err = NoErr)
        => OrderOk([root |-> menu.od, items |-> items], Root, decl)

\* ------------------------------------------------------------------ C5, C6
\* The last operation sent a timer's event through the dispatcher.
TimerDispatched ==
    /\ last.op \in {"start", "runstart", "tick"}
    /\ tobjs[last.id].valid
DispatchedFn == tobjs[last.id].callback
DispatchedEvent == TimerEvent(last.id)

\* C5: once App.run() has set the running instance, an event e dispatched
\* to a callback f(event) enters it once as f(e), to a callback
\* f(self, event) once as f(running_app, e); either way the dispatch
\* succeeds and the callback is given the very event e.
C5_BothShapesReceiveTheEvent ==
    (TimerDispatched /\ app_instance = "app" /\ DispatchedFn.body = "ok")
        => /\ DispatchedFn.shape = "one"
               => /\ err = NoErr
                  /\ calls = <<Entered(DispatchedFn, "none", DispatchedEvent)>>
           /\ DispatchedFn.shape = "two"
               => /\ err = NoErr
                  /\ calls = <<Entered(DispatchedFn, "app", DispatchedEvent)>>

C5_Witness ==
    /\ TimerDispatched /\ last.op = "tick" /\ app_instance = "app"
    /\ DispatchedFn.shape = "two" /\ DispatchedFn.body = "ok"
    /\ Len(calls) = 1 /\ calls[1].recv = "app" /\ calls[1].ev = DispatchedEvent

\* C6: a first attempt callback(event) that entered the callback's body and
\* failed there reaches the dispatcher's caller as the error the body raised,
\* whatever its class, and the callback is not invoked a second time.
C6_BodyErrorPropagatesUnretried ==
    (TimerDispatched /\ app_instance = "app"
        /\ Accepts(DispatchedFn, 1) /\ DispatchedFn.body # "ok")
        => /\ err = Raise(DispatchedFn.body, "body", <<DispatchedFn.name>>)
           /\ Len(calls) = 1

\* ------------------------------------------------------------------ C7, C8, C9
\* C7: stop() on a timer that has fired returns normally, and no timer's
\* callback is entered after stop() was called on it.
C7_StopReturnsAndSilences ==
    /\ (last.op = "stop" /\ tobjs[last.id].fired) => err = NoErr
    /\ \A t \in 1..Len(tobjs) : ~tobjs[t].late

\* C8: after stop() was called on a timer, calling start() on it fails and
\* enters no callback; start() on a timer never stopped does not fail for
\* want of start.
C8_StartUnavailableAfterStop ==
    last.op = "start"
        => IF tobjs[last.id].stopped
           THEN err # NoErr /\ calls = <<>>
           ELSE err # delattr_start(last.id)

\* C9: no timer's callback is entered before start() was called on the timer.
C9_IdleUntilStarted ==
    \A t \in 1..Len(tobjs) : tobjs[t].fired => tobjs[t].started

\* ------------------------------------------------------------------ C3, C4
\* root[t1]...[tn] read off the tree: the MenuItem the titles lead to, or 0
\* when a title is missing or leads to no MenuItem.
RECURSIVE NodeAt(_, _)
NodeAt(od, path) ==
    IF ~HasKey(od, Head(path)) THEN 0
    ELSE IF Get(od, Head(path)) = Sep THEN 0
    ELSE IF Len(path) = 1 THEN Get(od, Head(path))
    ELSE NodeAt(items[Get(od, Head(path))].kids, Tail(path))
Target(b) == IF menu.none \/ b.args = <<>> THEN 0 ELSE NodeAt(menu.od, b.args)

Latest(js) == CHOOSE j \in js : \A k \in js : k <= j

\* C3: a binding closure whose titles all exist along its path does not
\* fail, and the closures App.run() has run have attached their callbacks to
\* exactly the nodes root[t1]...[tn] of their paths: each such node holds the
\* callback of the last closure that targets it, and no other node holds one.
C3_BindingAttachesToThePathsNode ==
    pc \in {"run", "loop", "failed"}
        => /\ (last.op = "bind" /\ Target(buttons[last.id]) # 0) => err = NoErr
           /\ \A n \in 1..Len(items) :
                 LET js == {j \in 1..(bi - 1) : Target(buttons[j]) = n} IN
                 /\ (n \in DOMAIN ns_to_py_and_callback) <=> (js # {})
                 /\ js # {} => ns_to_py_and_callback[n] =
                                   [self |-> n, callback |-> buttons[Latest(js)].f]

C3_Witness ==
    /\ last.op = "bind" /\ err = NoErr
    /\ Len(buttons[last.id].args) = 3
    /\ Target(buttons[last.id]) \in DOMAIN ns_to_py_and_callback
    /\ Cardinality(DOMAIN ns_to_py_and_callback) = 1

\* C4: decoration never fails; a binding closure whose path does not resolve
\* in the application's menu fails in App.run() with the path-not-found
\* error that names the whole path, whichever step of the walk fails.
C4_UnresolvedPathNamesWholePath ==
    /\ last.op = "clicked" => err = NoErr
    /\ (last.op = "bind" /\ ~menu.none /\ buttons[last.id].args # <<>>
           /\ Traverse(RootObj, buttons[last.id].args).err # NoErr)
        => err = NoPathExists(buttons[last.id].args) /\ pc = "failed"

\* ------------------------------------------------------------------ C10
\* C10: App.run() has set the running instance before it starts a timer or
\* calls a binding closure, has started every registered timer before it
\* calls a binding closure, and no callback or closure dispatched from
\* App.run() on finds the instance unset.
C10_RunOrder ==
    /\ last.op \in {"runstart", "bind"} => app_instance = "app"
    /\ last.op = "bind" => \A i \in 1..Len(timers) : tobjs[timers[i]].started
    /\ (pc # "config" /\ last.op \in {"runstart", "bind", "tick", "click"})
           => /\ app_instance = "app"
              /\ err # Raise("AttributeError", "core", <<"*app_instance">>)

C10_Witness ==
    /\ last.op = "bind" /\ err = NoErr /\ app_instance = "app"
    /\ Len(timers) = 2
    /\ \A i \in 1..Len(timers) : tobjs[timers[i]].started /\ tobjs[timers[i]].fired

\* ------------------------------------------------------------------ C11
\* C11: calling every binding closure a second time on the running
\* application does not fail and leaves the table of bindings as the first
\* pass left it; a click after the second pass enters the body of the
\* callback bound to the clicked node, and enters it once.
C11_RebindingIsIdempotent ==
    [][/\ last'.op = "rebind"
           => /\ err' = NoErr
              /\ ns_to_py_and_callback' = ns_to_py_and_callback
       /\ (last'.op = "click" /\ rebinds > 0)
           => /\ Len(calls') = 1
              /\ calls'[1].f = ns_to_py_and_callback[last'.id].callback.name
              /\ calls'[1].ev = ItemEvent(last'.id)]_vars

C11_Witness ==
    /\ last.op = "click" /\ rebinds = 1 /\ Len(calls) = 1
    /\ Len(buttons) = 2 /\ Target(buttons[1]) = last.id /\ Target(buttons[2]) = last.id
    /\ buttons[1].f # buttons[2].f

\* ------------------------------------------------------------------ C12
RECURSIVE HasScalar(_)
HasScalar(elems) ==
    \E i \in 1..Len(elems) : elems[i].k = "int" \/ HasScalar(elems[i].sub)

IsNoneEle(e) == e.k = "none"
IsSepEntry(entry) == entry.val = Sep

\* C12: a declaration is not rejected for a None it holds, at the top level
\* or among a container's children, and the top level of the tree built has
\* one separator entry for every None of the declaration's top level.
C12_EveryNoneIsASeparator ==
    (last.op = "menu" /\ ~HasScalar(decl))
        => /\ err = NoErr
           /\ Len(SelectSeq(menu.od, IsSepEntry)) = Len(SelectSeq(Flat(decl), IsNoneEle))

\* ------------------------------------------------------------------ C13
\* C13: menu[title] = value with a value that is no MenuItem raises
\* TypeError and changes nothing, at the top-level menu and inside a
\* MenuItem, whether or not the title is already a key there.
C13_NonMenuItemValueIsRejected ==
    [][last'.op = "setitem_value"
          => /\ err'.cls = "TypeError"
             /\ menu' = menu
             /\ items' = items]_vars

\* ------------------------------------------------------------------ C17
KeysAreTitles(od) ==
    \A i \in 1..Len(od) : od[i].val \in 1..Len(items) => od[i].key = items[od[i].val].title

\* C17: at every level of the tree, each node is stored under its current
\* title.
C17_KeyIsCurrentTitle ==
    /\ KeysAreTitles(menu.od)
    /\ \A id \in 1..Len(items) : KeysAreTitles(items[id].kids)

\* ------------------------------------------------------------------ C14
\* C14: with no menu configured, decoration does not fail; the first binding
\* closure App.run() calls fails with the missing-menu error and ends run(),
\* so an application with a click registration and no menu never enters the
\* event loop.
C14_NoMenuFailsAtBindTime ==
    /\ last.op = "clicked" => err = NoErr
    /\ (last.op = "bind" /\ menu.none)
           => err = NoMenuCreated /\ pc = "failed" /\ last.id = 1
    /\ (menu.none /\ buttons # <<>>) => pc # "loop"

C14_Witness ==
    /\ last.op = "bind" /\ menu.none /\ err = NoMenuCreated /\ pc = "failed"
    /\ Len(buttons) = 2 /\ Len(timers) = 1 /\ tobjs[timers[1]].fired

\* ------------------------------------------------------------------ C15, C16
LastHandler == handlers[Len(handlers)]

\* C15: an activation delivered when @notifications was never applied
\* raises nothing and enters no callback; otherwise the calls made are calls
\* of the function registered last, with the notification's data, and a
\* handler that returns is entered exactly once, as f(data) or as
\* f(running_app, data).
C15_LastHandlerOnceOrWarning ==
    last.op = "notify"
        => IF handlers = <<>>
           THEN err = NoErr /\ calls = <<>> /\ warned
           ELSE /\ calls # <<>>
                /\ \A i \in 1..Len(calls) :
                      calls[i].f = LastHandler.name /\ calls[i].ev = DataEvent(last.id)
                /\ LastHandler.body = "ok"
                      => /\ err = NoErr
                         /\ calls = <<Entered(LastHandler,
                                              IF LastHandler.shape = "two" THEN "app"
                                              ELSE "none",
                                              DataEvent(last.id))>>

C15_Witness ==
    /\ last.op = "notify" /\ Len(handlers) = 2 /\ handlers[1].name # handlers[2].name
    /\ LastHandler.shape = "two" /\ LastHandler.body = "ok"
    /\ Len(calls) = 1 /\ calls[1].recv = "app"

\* C16: an error raised in the body of the registered handler leaves the
\* delivery as that error, whatever its class, and the delivery does not log
\* the warning of a missing handler.  (TypeError, the class the dispatcher
\* itself retries on, is left to C6.)
C16_HandlerErrorPropagates ==
    (last.op = "notify" /\ handlers # <<>>)
        => /\ ~warned
           /\ (Accepts(LastHandler, 1) /\ LastHandler.body \notin {"ok", "TypeError"})
                 => err = Raise(LastHandler.body, "body", <<LastHandler.name>>)

\* ------------------------------------------------------------------ C18
\* C18: once App.run() has made the status bar, an assignment of a value
\* other than None to App.title that returns leaves the status item showing
\* the title recorded, the string form of the value, and one to App.icon
\* that returns leaves it showing the image of the file assigned; before
\* run() either assignment records the value, touches no status bar and
\* raises nothing.
C18_AssignmentShowsInStatusBar ==
    /\ (last.op = "app_title" /\ last.arg # PyNone)
          => /\ err = NoErr
             /\ app.title = py_str(last.arg)
             /\ IF nsapp.made THEN nsapp.title = app.title ELSE nsapp.title = PyNone
    /\ (last.op = "app_icon" /\ last.arg # PyNone)
          => /\ app.icon = last.arg
             /\ ~nsapp.made => (err = NoErr /\ nsapp.image = PyNone)
             /\ (nsapp.made /\ err = NoErr) => nsapp.image = NSImage(last.arg.v)

C18_Witness ==
    /\ last.op = "app_title" /\ pc = "loop" /\ nsapp.made
    /\ last.arg = PyStr("U") /\ nsapp.title = PyStr("U")
    /\ nsapp.image = NSImage("b.png")

\* ------------------------------------------------------------------ C19
\* C19: a click on the native item of node N enters the callback of the
\* last registration whose path leads to N, and no other, with N as the
\* event.
C19_ClickInvokesLatestBinding ==
    last.op = "click"
        => LET js == {j \in 1..Len(buttons) : Target(buttons[j]) = last.id} IN
           /\ js # {}
           /\ calls # <<>>
           /\ \A i \in 1..Len(calls) :
                 /\ calls[i].f = buttons[Latest(js)].f.name
                 /\ calls[i].ev = ItemEvent(last.id)

C19_Witness ==
    /\ last.op = "click" /\ rebinds = 0 /\ Len(buttons) = 2
    /\ Target(buttons[1]) = last.id /\ Target(buttons[2]) = last.id
    /\ buttons[1].f # buttons[2].f
    /\ Cardinality(DOMAIN ns_to_py_and_callback) = 1
    /\ calls = <<Entered(buttons[2].f, IF buttons[2].f.shape = "two" THEN "app" ELSE "none",
                         ItemEvent(last.id))>>

\* ------------------------------------------------------------------ C20
\* C20: one delivery of a click, of a timer's tick or of a notification's
\* activation enters the body of the user's callback at most once, whatever
\* the callback's parameters and whether or not its body raises.
C20_BodyEnteredAtMostOnce ==
    last.op \in {"click", "tick", "notify", "start", "runstart"} => Len(calls) <= 1

\* ------------------------------------------------------------------ C21
\* C21: when a binding closure fails in App.run(), no callback of the user
\* has been entered and no node holds a click callback.
C21_StartupAbortsAtomically ==
    (last.op = "bind" /\ pc = "failed")
        => /\ \A t \in 1..Len(tobjs) : ~tobjs[t].fired
           /\ DOMAIN ns_to_py_and_callback = {}

\* ------------------------------------------------------------------ C22
Values(od) == [i \in 1..Len(od) |-> od[i].val]

\* C22: whatever is done to a MenuItem's mapping, its native submenu holds
\* the native items of its current children, in their order; the submenu is
\* there once a child was added, not before, and is never removed.
C22_SubmenuMirrorsChildren ==
    [][\A id \in 1..Len(items') :
          /\ items'[id].submenu.nsitems = Values(items'[id].kids)
          /\ id <= Len(items)
                => /\ ~items[id].submenu.none => ~items'[id].submenu.none
                   /\ (items[id].submenu.none /\ ~items'[id].submenu.none)
                         => Len(items'[id].kids) > Len(items[id].kids)
          /\ id > Len(items)
                => (items'[id].submenu.none <=> items'[id].kids = <<>>)]_vars

====
